---------------------------- MODULE Spec2Model ----------------------------
(***************************************************************************)
(* Operation-normalisation engine of chain-connectors:                     *)
(*   - chains/ethereum/server/src/utils.rs : get_fee_operations,           *)
(*     get_trace_operations (trace flattening + from/to/destruct ops)      *)
(*   - chains/polkadot/server/src/block.rs : get_transaction,              *)
(*     get_operation_data, generate_address                                *)
(* Option<T> is modelled as a sequence of length 0 (None) or 1 (Some).     *)
(* U256 is modelled as an unsigned integer of WordBits bits whose          *)
(* arithmetic panics on overflow/underflow, as the uint crate's does.      *)
(***************************************************************************)
EXTENDS Integers, Sequences, FiniteSets, TLC

VARIABLES
    pc,              \* position of the running function
    block,           \* Block: author, base_fee_per_gas
    tx,              \* Transaction: from, transaction_type, gas_price, max_priority_fee_per_gas
    receipt,         \* TransactionReceipt: gas_used
    trace,           \* input trace tree (arena: node id -> Trace), root is node 1
    op_len,          \* get_trace_operations' starting index
    traces,          \* flattened traces (Vec<FlattenTrace>)
    ti,              \* number of flattened traces already consumed by the for loop
    operations,      \* the operations vector under construction
    destroyed_accs,  \* HashMap<String, u64>
    events,          \* the extrinsic's events
    event_index,     \* enumerate() position of the polkadot loop
    emitted,         \* history: the operations pushed by each finished loop iteration
    tx_operations,   \* get_transaction's own operations vector (utils.rs:43)
    procs,           \* concurrent invocations of get_trace_operations: their local state
    result           \* what the function returned

vars == <<pc, block, tx, receipt, trace, op_len, traces, ti, operations,
          destroyed_accs, events, event_index, emitted, tx_operations, procs,
          result>>

---------------------------------------------------------------------------
\* Option<T>
None == <<>>
Some(x) == <<x>>
IsSome(o) == Len(o) = 1
Unwrap(o) == o[1]
Option(S) == {None} \cup {Some(x) : x \in S}

\* Result of a call: Ok(ops), Err(msg) (anyhow error), or a panic (abort).
NoResult == [tag |-> "none", ops |-> <<>>, msg |-> ""]
Ok(ops) == [tag |-> "Ok", ops |-> ops, msg |-> ""]
Err(m) == [tag |-> "Err", ops |-> <<>>, msg |-> m]
Panic(m) == [tag |-> "Panic", ops |-> <<>>, msg |-> m]

---------------------------------------------------------------------------
\* Bounds of the model
WordBits == 20    \* width the model gives to U256
MaxFee == 2       \* base fee / gas price inputs range over 0..MaxFee and a few larger values
MaxNodes == 4     \* nodes of a trace tree whose shape and revert marks vary
MaxOpNodes == 2   \* nodes of a trace tree whose addresses, values and kinds vary
MaxEvents == 2    \* events of one extrinsic
MaxFields == 3    \* named fields of the events of one extrinsic, all together
MaxUncles == 2    \* uncles of one block

U256Max == 2 ^ WordBits - 1

\* Operation type and status tags imported from eth_types
FEE_OP_TYPE == "FEE"
CALL_OP_TYPE == "CALL"
CREATE_OP_TYPE == "CREATE"
CREATE2_OP_TYPE == "CREATE2"
SELF_DESTRUCT_OP_TYPE == "SELFDESTRUCT"
DESTRUCT_OP_TYPE == "DESTRUCT"
SUCCESS_STATUS == "SUCCESS"
FAILURE_STATUS == "FAILURE"

\* H160 addresses
H160s == {1, 2}

\* ethers::utils::to_checksum: H160 -> "0x..." string (never empty, injective)
to_checksum(h) == <<"0x", h>>

\* format!("-{v}") and format!("{v}"): the decimal string of an amount
FmtNeg(v) == [sign |-> "-", digits |-> v]
FmtPos(v) == [sign |-> "", digits |-> v]

\* rosetta_types::Operation
Operation(index, related, type, status, account, amount, metadata) ==
    [index |-> index, related_operations |-> related, type |-> type,
     status |-> status, account |-> account, amount |-> amount,
     metadata |-> metadata]

---------------------------------------------------------------------------
\* U256 arithmetic (uint crate): +, * and - panic on overflow / underflow.
AddOverflows(a, b) == a > U256Max - b
MulOverflows(a, b) == a # 0 /\ b > U256Max \div a
\* (variant: the subtraction is not checked)
SubUnderflowsMutNever(a, b) == FALSE
SubUnderflows(a, b) == a < b

\* utils.rs:85-89  effective gas price
\* (variant: the fee-market branch takes the declared gas price)
GasPriceMutLegacy(tx_type, base_fee, priority_fee, tx_gas_price) ==
    IF tx_type = 2 THEN tx_gas_price ELSE tx_gas_price
GasPrice(tx_type, base_fee, priority_fee, tx_gas_price) ==
    IF tx_type = 2 THEN base_fee + priority_fee ELSE tx_gas_price

\* utils.rs:90
FeeAmount(gas_used, gas_price) == gas_used * gas_price
\* utils.rs:91
FeeBurned(gas_used, base_fee) == gas_used * base_fee
\* utils.rs:92
\* (variant: the burned part is not taken off the miner's reward)
MinerEarnedRewardMutWhole(fee_amount, fee_burned) == fee_amount
MinerEarnedReward(fee_amount, fee_burned) == fee_amount - fee_burned

\* utils.rs:94-171  the operations built from miner_earned_reward and fee_burned
\* (variant: the burn operation is pushed unconditionally)
FeeOpsMutAlwaysBurn(from, miner, miner_earned_reward, fee_burned) ==
    << Operation(0, None, FEE_OP_TYPE, Some(SUCCESS_STATUS),
                 Some(to_checksum(from)), Some(FmtNeg(miner_earned_reward)), None),
       Operation(1, Some(<<0>>), FEE_OP_TYPE, Some(SUCCESS_STATUS),
                 Some(to_checksum(miner)), Some(FmtPos(miner_earned_reward)), None),
       Operation(2, None, FEE_OP_TYPE, Some(SUCCESS_STATUS),
                 Some(to_checksum(from)), Some(FmtNeg(fee_burned)), None) >>
FeeOps(from, miner, miner_earned_reward, fee_burned) ==
    LET first_op == Operation(0, None, FEE_OP_TYPE, Some(SUCCESS_STATUS),
                        Some(to_checksum(from)), Some(FmtNeg(miner_earned_reward)), None)
        second_op == Operation(1, Some(<<0>>), FEE_OP_TYPE, Some(SUCCESS_STATUS),
                        Some(to_checksum(miner)), Some(FmtPos(miner_earned_reward)), None)
        burned_operation == Operation(2, None, FEE_OP_TYPE, Some(SUCCESS_STATUS),
                        Some(to_checksum(from)), Some(FmtNeg(fee_burned)), None)
    IN  IF fee_burned # 0
        THEN <<first_op, second_op, burned_operation>>
        ELSE <<first_op, second_op>>

\* utils.rs:71-172
get_fee_operations(b, t, r) ==
    IF ~IsSome(b.author) THEN Err("block has no author")
    ELSE IF ~IsSome(b.base_fee_per_gas) THEN Err("block has no base fee")
    ELSE IF ~IsSome(t.transaction_type) THEN Err("transaction type unavailable")
    ELSE IF ~IsSome(t.gas_price) THEN Err("gas price is not available")
    ELSE IF ~IsSome(r.gas_used) THEN Err("gas used is not available")
    ELSE
    LET miner == Unwrap(b.author)
        base_fee == Unwrap(b.base_fee_per_gas)
        tx_type == Unwrap(t.transaction_type)
        tx_gas_price == Unwrap(t.gas_price)
        tx_max_priority_fee_per_gas ==
            IF IsSome(t.max_priority_fee_per_gas)
            THEN Unwrap(t.max_priority_fee_per_gas) ELSE 0
        gas_used == Unwrap(r.gas_used)
    IN  IF tx_type = 2 /\ AddOverflows(base_fee, tx_max_priority_fee_per_gas)
        THEN Panic("arithmetic operation overflow")
        ELSE
        LET gas_price == GasPrice(tx_type, base_fee, tx_max_priority_fee_per_gas, tx_gas_price)
        IN  IF MulOverflows(gas_used, gas_price) \/ MulOverflows(gas_used, base_fee)
            THEN Panic("arithmetic operation overflow")
            ELSE
            LET fee_amount == FeeAmount(gas_used, gas_price)
                fee_burned == FeeBurned(gas_used, base_fee)
            IN  IF SubUnderflows(fee_amount, fee_burned)
                THEN Panic("arithmetic operation overflow")
                ELSE Ok(FeeOps(t.from, miner,
                               MinerEarnedReward(fee_amount, fee_burned), fee_burned))

---------------------------------------------------------------------------
\* Inputs of get_fee_operations
FeeVals == (0 .. MaxFee) \cup {5, 10, 20, U256Max}
PriorityVals == {0, 1, 5, U256Max}
GasUsedVals == {0, 1, 21000, U256Max}
TxTypes == {0, 1, 2}

Blocks == [author : Option(H160s), base_fee_per_gas : Option(FeeVals)]
Txs == [from : H160s, transaction_type : Option(TxTypes),
        gas_price : Option(FeeVals), max_priority_fee_per_gas : Option(PriorityVals)]
Receipts == [gas_used : Option(GasUsedVals)]

NoBlock == [author |-> None, base_fee_per_gas |-> None]
NoTx == [from |-> 1, transaction_type |-> None, gas_price |-> None,
         max_priority_fee_per_gas |-> None]
NoReceipt == [gas_used |-> None]

InitFee ==
    /\ pc = "fee"
    /\ block \in Blocks
    /\ tx \in Txs
    /\ receipt \in Receipts
    /\ trace = <<>>
    /\ op_len = 0
    /\ traces = <<>>
    /\ ti = 0
    /\ operations = <<>>
    /\ destroyed_accs = <<>>
    /\ events = <<>>
    /\ event_index = 0
    /\ emitted = <<>>
    /\ tx_operations = <<>>
    /\ procs = <<>>
    /\ result = NoResult

\* One call of get_fee_operations
GetFeeOperations ==
    /\ pc = "fee"
    /\ result' = get_fee_operations(block, tx, receipt)
    /\ pc' = "done"
    /\ UNCHANGED <<tx_operations, procs, block, tx, receipt, trace, op_len, traces, ti, operations,
                   destroyed_accs, events, event_index, emitted>>

NextFee == GetFeeOperations
SpecFee == InitFee /\ [][NextFee]_vars

---------------------------------------------------------------------------
\* Fee claims.  The expected quantities are written from the specification's
\* formulas over the inputs, with products that do not fit the word reported
\* as -1 (no Ok result may rest on them).
FeeInputsPresent ==
    /\ IsSome(block.author) /\ IsSome(block.base_fee_per_gas)
    /\ IsSome(tx.transaction_type) /\ IsSome(tx.gas_price)
    /\ IsSome(receipt.gas_used)
FeeReturnedOk == pc = "done" /\ result.tag = "Ok" /\ FeeInputsPresent
ExpPriorityFee ==
    IF IsSome(tx.max_priority_fee_per_gas) THEN Unwrap(tx.max_priority_fee_per_gas) ELSE 0
ExpEffectivePrice ==
    IF Unwrap(tx.transaction_type) = 2
    THEN Unwrap(block.base_fee_per_gas) + ExpPriorityFee
    ELSE Unwrap(tx.gas_price)
ExpMul(a, b) == IF MulOverflows(a, b) THEN 0 - 1 ELSE a * b
ExpFeeBurned == ExpMul(Unwrap(receipt.gas_used), Unwrap(block.base_fee_per_gas))
ExpMinerEarned == ExpMul(Unwrap(receipt.gas_used), ExpEffectivePrice) - ExpFeeBurned

\* C1: whenever get_fee_operations returns Ok, the amounts it emits are
\* miner_earned = gas_used * effective_price - fee_burned (effective_price =
\* base_fee + priority_fee for type 2, priority_fee 0 when absent, else the
\* declared gas_price) and fee_burned = gas_used * base_fee; with gas_used =
\* 21000 and base_fee = 10, a legacy gas_price of 20 gives 210000 / 210000 and
\* a fee-market priority_fee of 5 gives 105000 / 210000.
C1_FeeAmounts ==
    FeeReturnedOk =>
        /\ ExpFeeBurned >= 0 /\ ExpMinerEarned >= 0
        /\ result.ops[1].amount = Some(FmtNeg(ExpMinerEarned))
        /\ result.ops[2].amount = Some(FmtPos(ExpMinerEarned))
        /\ IF Len(result.ops) = 3
           THEN result.ops[3].amount = Some(FmtNeg(ExpFeeBurned))
           ELSE ExpFeeBurned = 0
        /\ (/\ receipt.gas_used = Some(21000) /\ block.base_fee_per_gas = Some(10)
            /\ tx.transaction_type # Some(2) /\ tx.gas_price = Some(20))
           => /\ result.ops[2].amount = Some(FmtPos(210000))
              /\ result.ops[3].amount = Some(FmtNeg(210000))
        /\ (/\ receipt.gas_used = Some(21000) /\ block.base_fee_per_gas = Some(10)
            /\ tx.transaction_type = Some(2) /\ tx.max_priority_fee_per_gas = Some(5))
           => /\ result.ops[2].amount = Some(FmtPos(105000))
              /\ result.ops[3].amount = Some(FmtNeg(210000))
\* the fee-market example of the specification has been computed
C1_Witness ==
    /\ FeeReturnedOk
    /\ receipt.gas_used = Some(21000) /\ block.base_fee_per_gas = Some(10)
    /\ tx.transaction_type = Some(2) /\ tx.max_priority_fee_per_gas = Some(5)
    /\ tx.gas_price = Some(20)
    /\ Len(result.ops) = 3

\* C2: whenever get_fee_operations returns Ok, the list is exactly
\* op0 = sender, -miner_earned, unrelated; op1 = block author, +miner_earned,
\* related to [0]; and a third op2 = sender, -fee_burned, unrelated, iff
\* fee_burned # 0; all of kind fee with status success.
C2_ExpectedOps ==
    LET sender == Some(to_checksum(tx.from))
        author == Some(to_checksum(Unwrap(block.author)))
        op0 == [index |-> 0, related_operations |-> None, type |-> FEE_OP_TYPE,
                status |-> Some(SUCCESS_STATUS), account |-> sender,
                amount |-> Some(FmtNeg(ExpMinerEarned)), metadata |-> None]
        op1 == [index |-> 1, related_operations |-> Some(<<0>>), type |-> FEE_OP_TYPE,
                status |-> Some(SUCCESS_STATUS), account |-> author,
                amount |-> Some(FmtPos(ExpMinerEarned)), metadata |-> None]
        op2 == [index |-> 2, related_operations |-> None, type |-> FEE_OP_TYPE,
                status |-> Some(SUCCESS_STATUS), account |-> sender,
                amount |-> Some(FmtNeg(ExpFeeBurned)), metadata |-> None]
    IN  IF ExpFeeBurned # 0 THEN <<op0, op1, op2>> ELSE <<op0, op1>>
C2_FeeOpsShape == FeeReturnedOk => result.ops = C2_ExpectedOps
\* a call that burned nothing (base fee 0) and returned two operations
C2_Witness ==
    /\ FeeReturnedOk
    /\ Len(result.ops) = 2
    /\ receipt.gas_used = Some(21000) /\ tx.gas_price = Some(20)
    /\ tx.transaction_type = Some(0)


---------------------------------------------------------------------------
\* Traces.  A Trace tree is held as an arena: trace[i] is node i, its calls
\* field lists the ids of its children in call order, node 1 is the root.
\* The field node names the tree node an entry came from (it stands for the
\* payload fields gas, input and output, which are carried over untouched).

\* utils.rs:190-195  a reverted parent marks the child and hands down its message
\* (variants: nothing is handed down; the child's own message is overwritten)
PropagateRevertMutOwnOnly(parent, child) == child
PropagateRevertMutOverwrite(parent, child) ==
    IF parent.revert
    THEN [child EXCEPT !.revert = TRUE, !.error_message = parent.error_message]
    ELSE child
PropagateRevert(parent, child) ==
    IF parent.revert
    THEN [child EXCEPT !.revert = TRUE,
                       !.error_message = IF child.error_message = ""
                                         THEN parent.error_message ELSE @]
    ELSE child

\* utils.rs:196  traces.push_back(child) for every child, after pop_front
\* (variant: children are pushed to the front, a stack)
PushBackMutFront(rest, children) == children \o rest
PushBack(rest, children) == rest \o children

\* eth_types: FlattenTrace::from(trace) keeps the node's fields, drops calls
FlattenTraceFrom(t) ==
    [node |-> t.node, from |-> t.from, to |-> t.to, value |-> t.value,
     trace_type |-> t.trace_type, revert |-> t.revert,
     error_message |-> t.error_message]

\* utils.rs:185-200  the flattening loop
RECURSIVE FlattenLoop(_, _, _)
FlattenLoop(arena, queue, flatten_traces) ==
    IF queue = <<>> THEN flatten_traces
    ELSE LET t == Head(queue)
             children == [i \in 1 .. Len(t.calls) |->
                              PropagateRevert(t, arena[t.calls[i]])]
         IN  FlattenLoop(arena, PushBack(Tail(queue), children),
                         Append(flatten_traces, FlattenTraceFrom(t)))

\* u64 arithmetic of the destruction ledger (utils.rs:257, 313): an overflow
\* panics in a build with overflow checks and wraps otherwise.
U64Wrap == U256Max + 1
SubU64(a, b) == IF a >= b THEN a - b ELSE a + U64Wrap - b
AddU64(a, b) == (a + b) % U64Wrap

\* HashMap::remove (utils.rs:279)
MapRemove(m, k) == [x \in (DOMAIN m) \ {k} |-> m[x]]
\* HashMap::insert (utils.rs:258, 314)
MapInsert(m, k, v) == [x \in (DOMAIN m) \cup {k} |-> IF x = k THEN v ELSE m[x]]

\* utils.rs:210-215
OperationStatus(t) == IF t.revert THEN FAILURE_STATUS ELSE SUCCESS_STATUS
\* utils.rs:217-220
ZeroValue(t) == t.value = 0
\* utils.rs:222-225
\* (variant: zero-value calls are not suppressed)
ShouldAddMutAlways(t) == TRUE
ShouldAdd(t) == ~(ZeroValue(t) /\ t.trace_type = CALL_OP_TYPE)

\* utils.rs:231-254  the "from" operation
\* (variant: the amount is present also when the value is zero)
FromOperationMutAmountAlways(t, index) ==
    Operation(index, None, t.trace_type, Some(OperationStatus(t)),
              Some(to_checksum(t.from)), Some(FmtNeg(t.value)), None)
FromOperation(t, index) ==
    Operation(index, None, t.trace_type, Some(OperationStatus(t)),
              Some(to_checksum(t.from)),
              IF ZeroValue(t) THEN None ELSE Some(FmtNeg(t.value)), None)
\* utils.rs:283-310  the "to" operation
\* (variant: the index is one too far from the last operation's)
ToOperationMutGap(t, last_op_index) ==
    Operation(last_op_index + 2, Some(<<last_op_index>>), t.trace_type,
              Some(OperationStatus(t)), Some(to_checksum(t.to)),
              IF ZeroValue(t) THEN None ELSE Some(FmtPos(t.value)), None)
ToOperation(t, last_op_index) ==
    Operation(last_op_index + 1, Some(<<last_op_index>>), t.trace_type,
              Some(OperationStatus(t)), Some(to_checksum(t.to)),
              IF ZeroValue(t) THEN None ELSE Some(FmtPos(t.value)), None)
\* utils.rs:330-350  a destruct operation; H160::from_str undoes to_checksum
DestructOperation(k, v, index) ==
    Operation(index, None, DESTRUCT_OP_TYPE, Some(SUCCESS_STATUS),
              Some(to_checksum(k[2])), Some(FmtNeg(v)), None)

\* State of the for loop: the operations, the ledger, and whether it panicked
LoopState(ops, accs, panicked) ==
    [operations |-> ops, destroyed_accs |-> accs, panicked |-> panicked]

\* utils.rs:230-263
\* (variant: a self-destruct enters its account in the ledger)
FromStepMutRegister(st, t, start, checks) ==
    IF ~ShouldAdd(t) THEN st
    ELSE
    LET from == to_checksum(t.from)
        op == FromOperation(t, start + Len(st.operations))
        hit == /\ ~ZeroValue(t)
               /\ from \in DOMAIN st.destroyed_accs
               /\ OperationStatus(t) = SUCCESS_STATUS
        accs == IF hit THEN MapInsert(st.destroyed_accs, from,
                                      SubU64(st.destroyed_accs[from], t.value))
                       ELSE st.destroyed_accs
    IN  IF hit /\ checks /\ st.destroyed_accs[from] < t.value
        THEN LoopState(st.operations, st.destroyed_accs, TRUE)
        ELSE LoopState(Append(st.operations, op),
                       IF t.trace_type = SELF_DESTRUCT_OP_TYPE
                       THEN MapInsert(accs, from, 0) ELSE accs,
                       FALSE)
FromStep(st, t, start, checks) ==
    IF ~ShouldAdd(t) THEN st
    ELSE
    LET from == to_checksum(t.from)
        op == FromOperation(t, start + Len(st.operations))
        hit == /\ ~ZeroValue(t)
               /\ from \in DOMAIN st.destroyed_accs
               /\ OperationStatus(t) = SUCCESS_STATUS
    IN  IF hit /\ checks /\ st.destroyed_accs[from] < t.value
        THEN LoopState(st.operations, st.destroyed_accs, TRUE)
        ELSE LoopState(Append(st.operations, op),
                       IF hit THEN MapInsert(st.destroyed_accs, from,
                                             SubU64(st.destroyed_accs[from], t.value))
                              ELSE st.destroyed_accs,
                       FALSE)

\* utils.rs:265-270
\* (variant: a self-destruct to itself is not skipped)
SelfDestructSkipMutNever(t) == FALSE
SelfDestructSkip(t) ==
    t.trace_type = SELF_DESTRUCT_OP_TYPE /\ to_checksum(t.from) = to_checksum(t.to)
\* utils.rs:272-274  String::is_empty of a checksum string
ToIsEmpty(t) == Len(to_checksum(t.to)) = 0

\* utils.rs:276-280
ResurrectStep(st, t) ==
    IF t.trace_type = CREATE_OP_TYPE \/ t.trace_type = CREATE2_OP_TYPE
    THEN LoopState(st.operations, MapRemove(st.destroyed_accs, to_checksum(t.to)), FALSE)
    ELSE st

\* utils.rs:282-319
\* (variant: the credited account is entered in the ledger even when the
\*  ledger has no entry for it)
ToStepMutRecord(st, t, checks) ==
    IF ~ShouldAdd(t) THEN st
    ELSE
    LET to == to_checksum(t.to)
        last_op_index == st.operations[Len(st.operations)].index
        op == ToOperation(t, last_op_index)
        hit == ~ZeroValue(t) /\ OperationStatus(t) = SUCCESS_STATUS
        old == IF to \in DOMAIN st.destroyed_accs THEN st.destroyed_accs[to] ELSE 0
    IN  IF hit /\ checks /\ old + t.value >= U64Wrap
        THEN LoopState(st.operations, st.destroyed_accs, TRUE)
        ELSE LoopState(Append(st.operations, op),
                       IF hit THEN MapInsert(st.destroyed_accs, to, AddU64(old, t.value))
                              ELSE st.destroyed_accs,
                       FALSE)
ToStep(st, t, checks) ==
    IF ~ShouldAdd(t) THEN st
    ELSE
    LET to == to_checksum(t.to)
        last_op_index == st.operations[Len(st.operations)].index
        op == ToOperation(t, last_op_index)
        hit == /\ ~ZeroValue(t)
               /\ to \in DOMAIN st.destroyed_accs
               /\ OperationStatus(t) = SUCCESS_STATUS
    IN  IF hit /\ checks /\ st.destroyed_accs[to] + t.value >= U64Wrap
        THEN LoopState(st.operations, st.destroyed_accs, TRUE)
        ELSE LoopState(Append(st.operations, op),
                       IF hit THEN MapInsert(st.destroyed_accs, to,
                                             AddU64(st.destroyed_accs[to], t.value))
                              ELSE st.destroyed_accs,
                       FALSE)

\* utils.rs:321-353  one destruct operation per nonzero ledger entry, in the
\* order the HashMap iterator yields the keys
RECURSIVE DrainStep(_, _)
DrainStep(st, order) ==
    IF order = <<>> \/ st.panicked THEN st
    ELSE LET k == Head(order)
             v == st.destroyed_accs[k]
         IN  IF v = 0 THEN DrainStep(st, Tail(order))
             ELSE IF st.operations = <<>>
             THEN LoopState(st.operations, st.destroyed_accs, TRUE)
             ELSE DrainStep(
                    LoopState(Append(st.operations,
                                DestructOperation(k, v,
                                    st.operations[Len(st.operations)].index + 1)),
                              st.destroyed_accs, FALSE),
                    Tail(order))

\* utils.rs:209-354  one iteration of the for loop over the flattened traces
ProcessTrace(st, t, start, checks, order) ==
    LET s1 == FromStep(st, t, start, checks)
    IN  IF s1.panicked \/ SelfDestructSkip(t) \/ ToIsEmpty(t) THEN s1
        ELSE LET s2 == ToStep(ResurrectStep(s1, t), t, checks)
             IN  DrainStep(s2, order)

\* the keys of the ledger when the destruct loop of an iteration starts
DrainKeys(st, t, start, checks) ==
    LET s1 == FromStep(st, t, start, checks)
    IN  IF s1.panicked \/ SelfDestructSkip(t) \/ ToIsEmpty(t) THEN {}
        ELSE DOMAIN ToStep(ResurrectStep(s1, t), t, checks).destroyed_accs
\* the orders in which a HashMap may iterate over the keys K
KeyOrders(K) ==
    {o \in [1 .. Cardinality(K) -> K] :
        \A i, j \in DOMAIN o : i # j => o[i] # o[j]}

---------------------------------------------------------------------------
\* get_trace_operations (utils.rs:184-357) as a process

\* utils.rs:185-203
Flatten ==
    /\ pc = "flatten"
    /\ traces' = FlattenLoop(trace, <<trace[1]>>, <<>>)
    /\ operations' = <<>>
    /\ destroyed_accs' = <<>>
    /\ ti' = 0
    /\ pc' = "for"
    /\ UNCHANGED <<tx_operations, procs, block, tx, receipt, trace, op_len, events, event_index,
                   emitted, result>>

\* utils.rs:209-354
ProcessEntry ==
    /\ pc = "for"
    /\ ti < Len(traces)
    /\ \E checks \in BOOLEAN :
       \E order \in KeyOrders(DrainKeys(LoopState(operations, destroyed_accs, FALSE),
                                        traces[ti + 1], op_len, checks)) :
         LET st == ProcessTrace(LoopState(operations, destroyed_accs, FALSE),
                                traces[ti + 1], op_len, checks, order)
         IN  IF st.panicked
             THEN /\ result' = Panic("panicked")
                  /\ pc' = "done"
                  /\ UNCHANGED <<operations, destroyed_accs, ti, emitted>>
             ELSE /\ operations' = st.operations
                  /\ destroyed_accs' = st.destroyed_accs
                  /\ ti' = ti + 1
                  /\ emitted' = Append(emitted,
                                   SubSeq(st.operations, Len(operations) + 1,
                                          Len(st.operations)))
                  /\ UNCHANGED <<pc, result>>
    /\ UNCHANGED <<tx_operations, procs, block, tx, receipt, trace, op_len, traces, events, event_index>>

\* utils.rs:356
ReturnTraceOps ==
    /\ pc = "for"
    /\ ti = Len(traces)
    /\ result' = Ok(operations)
    /\ pc' = "done"
    /\ UNCHANGED <<tx_operations, procs, block, tx, receipt, trace, op_len, traces, ti, operations,
                   destroyed_accs, events, event_index, emitted>>

NextTrace == Flatten \/ ProcessEntry \/ ReturnTraceOps


---------------------------------------------------------------------------
\* Inputs of get_trace_operations

RECURSIVE SortedSeq(_)
SortedSeq(S) ==
    IF S = {} THEN <<>>
    ELSE LET m == CHOOSE x \in S : \A y \in S : x <= y
         IN  <<m>> \o SortedSeq(S \ {m})

\* Tree shapes on nodes 1..n: every node but the root has a parent with a
\* smaller id, and the children of a node are called in increasing id order.
Parents(n) == {p \in [2 .. n -> 1 .. n] : \A i \in 2 .. n : p[i] < i}
Calls(p, n, k) == SortedSeq({i \in 2 .. n : p[i] = k})

TraceTypes == {CALL_OP_TYPE, CREATE_OP_TYPE, CREATE2_OP_TYPE, SELF_DESTRUCT_OP_TYPE}
Transfers == {<<1, 2>>, <<2, 1>>, <<1, 1>>}
TraceValues == {0, 1}
StartIndexes == {3}

TraceIdle ==
    /\ block = NoBlock
    /\ tx = NoTx
    /\ receipt = NoReceipt
    /\ traces = <<>>
    /\ ti = 0
    /\ operations = <<>>
    /\ destroyed_accs = <<>>
    /\ events = <<>>
    /\ event_index = 0
    /\ emitted = <<>>
    /\ tx_operations = <<>>
    /\ procs = <<>>
    /\ result = NoResult

\* Trees of up to MaxNodes value-carrying calls; every node is or is not
\* marked reverted and has no error message or one of its own.
InitFlatten ==
    /\ pc = "flatten"
    /\ op_len = 0
    /\ \E n \in 1 .. MaxNodes :
         \E p \in Parents(n), rev \in [1 .. n -> BOOLEAN], own \in [1 .. n -> BOOLEAN] :
            trace = [i \in 1 .. n |->
                       [node |-> i, from |-> 1, to |-> 2, value |-> 1,
                        trace_type |-> CALL_OP_TYPE, revert |-> rev[i],
                        error_message |-> IF own[i] THEN "e" \o ToString(i) ELSE "",
                        calls |-> Calls(p, n, i)]]
    /\ TraceIdle

\* Trees of up to MaxOpNodes nodes of any kind, value, addresses and revert mark.
InitTrace ==
    /\ pc = "flatten"
    /\ op_len \in StartIndexes
    /\ \E n \in 1 .. MaxOpNodes :
         \E p \in Parents(n), xfer \in [1 .. n -> Transfers],
            val \in [1 .. n -> TraceValues], kind \in [1 .. n -> TraceTypes],
            rev \in [1 .. n -> BOOLEAN] :
            trace = [i \in 1 .. n |->
                       [node |-> i, from |-> xfer[i][1], to |-> xfer[i][2],
                        value |-> val[i], trace_type |-> kind[i], revert |-> rev[i],
                        error_message |-> IF rev[i] THEN "e" \o ToString(i) ELSE "",
                        calls |-> Calls(p, n, i)]]
    /\ TraceIdle

SpecFlatten == InitFlatten /\ [][NextTrace]_vars
SpecTrace == InitTrace /\ [][NextTrace]_vars


---------------------------------------------------------------------------
\* Trace claims.  The tree of the input is read from trace, the arena.
TraceNodes == DOMAIN trace
ParentOf(i) == CHOOSE k \in TraceNodes : \E c \in DOMAIN trace[k].calls : trace[k].calls[c] = i
RECURSIVE DepthOf(_)
DepthOf(i) == IF i = 1 THEN 0 ELSE 1 + DepthOf(ParentOf(i))
Flattened == pc \in {"for", "done"} /\ trace # <<>>
\* position of node i in the flattened sequence
PosOf(i) == CHOOSE j \in DOMAIN traces : traces[j].node = i

\* C4: flattening a tree of N nodes yields N entries, every node exactly once,
\* in breadth-first discovery order: root first, a node after its parent,
\* siblings in call order, depth d before depth d+1, and within one depth the
\* children of an earlier node before those of a later one.
C4_FlattenBreadthFirst ==
    Flattened =>
        /\ Len(traces) = Cardinality(TraceNodes)
        /\ \A i \in TraceNodes : Cardinality({j \in DOMAIN traces : traces[j].node = i}) = 1
        /\ traces[1].node = 1
        /\ \A i \in TraceNodes \ {1} : PosOf(ParentOf(i)) < PosOf(i)
        /\ \A k \in TraceNodes : \A a, b \in DOMAIN trace[k].calls :
              a < b => PosOf(trace[k].calls[a]) < PosOf(trace[k].calls[b])
        /\ \A a, b \in TraceNodes : DepthOf(a) < DepthOf(b) => PosOf(a) < PosOf(b)
        /\ \A a, b \in TraceNodes \ {1} :
              (DepthOf(a) = DepthOf(b) /\ PosOf(ParentOf(a)) < PosOf(ParentOf(b)))
                  => PosOf(a) < PosOf(b)
\* a tree whose breadth-first order differs from its depth-first order
C4_Witness ==
    /\ Flattened
    /\ Len(traces) = 4
    /\ trace[1].calls = <<2, 4>> /\ trace[2].calls = <<3>>
    /\ [j \in 1 .. 4 |-> traces[j].node] = <<1, 2, 4, 3>>

\* node i or one of its ancestors is marked reverted in the input tree
RECURSIVE RevertedUpward(_)
RevertedUpward(i) ==
    trace[i].revert \/ (i # 1 /\ RevertedUpward(ParentOf(i)))

\* C5: every operation emitted for a trace node has status failure iff the
\* node or one of its ancestors, at any depth, is marked reverted in the
\* input tree, and status success otherwise.
C5_RevertTransitiveExact ==
    Flattened =>
        \A j \in DOMAIN emitted : \A o \in DOMAIN emitted[j] :
            emitted[j][o].status =
                IF RevertedUpward(traces[j].node)
                THEN Some(FAILURE_STATUS) ELSE Some(SUCCESS_STATUS)
\* a grandchild of a reverted root, itself and its parent unmarked, has emitted
\* its two operations
C5_Witness ==
    /\ Flattened
    /\ \E j \in DOMAIN emitted :
         LET i == traces[j].node
         IN  /\ DepthOf(i) = 2
             /\ trace[1].revert /\ ~trace[i].revert /\ ~trace[ParentOf(i)].revert
             /\ Len(emitted[j]) = 2
             /\ emitted[j][1].status = Some(FAILURE_STATUS)

\* C6 as stated: with a reverted root, every descendant without a message of
\* its own carries a non-empty message after flattening, and a descendant
\* with its own message keeps it.
C6_Original ==
    (Flattened /\ trace[1].revert) =>
        \A j \in DOMAIN traces :
            LET i == traces[j].node
            IN  i # 1 =>
                  IF trace[i].error_message = ""
                  THEN traces[j].error_message # ""
                  ELSE traces[j].error_message = trace[i].error_message

\* the message of the nearest node on the path from i to the root (i included)
\* that has a message of its own, "" when none has
RECURSIVE NearestMessage(_)
NearestMessage(i) ==
    IF trace[i].error_message # "" \/ i = 1 THEN trace[i].error_message
    ELSE NearestMessage(ParentOf(i))

\* C6 (amended): with a reverted root, after flattening every descendant
\* without a message of its own carries the message of its nearest ancestor
\* that has one, which is empty when no ancestor has one, and a descendant
\* with its own message keeps it.
C6_InheritNearestMessage ==
    (Flattened /\ trace[1].revert) =>
        \A j \in DOMAIN traces :
            /\ traces[j].error_message = NearestMessage(traces[j].node)
            /\ trace[traces[j].node].error_message # ""
                  => traces[j].error_message = trace[traces[j].node].error_message
\* root reverted with a message, its child has none and inherits it, the
\* grandchild keeps its own
C6_Witness ==
    /\ Flattened
    /\ Len(traces) >= 3
    /\ trace[1].revert /\ trace[1].error_message = "e1"
    /\ trace[1].calls = <<2>> /\ trace[2].calls = <<3>>
    /\ trace[2].error_message = "" /\ trace[3].error_message = "e3"
    /\ traces[2].error_message = "e1" /\ traces[3].error_message = "e3"

\* the for loop run over a sequence of flattened traces from an empty state
RECURSIVE RunTraces(_, _, _)
RunTraces(st, seq, start) ==
    IF seq = <<>> \/ st.panicked THEN st
    ELSE RunTraces(ProcessTrace(st, Head(seq), start, TRUE,
                                CHOOSE o \in KeyOrders(DrainKeys(st, Head(seq), start, TRUE)) : TRUE),
                   Tail(seq), start)
IsZeroValueCall(e) == e.trace_type = "CALL" /\ e.value = 0
NotZeroValueCall(e) == ~IsZeroValueCall(e)
InLoop == pc \in {"for", "done"} /\ result.tag # "Panic"

\* C7: a flattened entry of kind call with value 0 emits no operation,
\* whatever its revert mark, and leaves operations, indices and ledger as if
\* it were absent: the loop state equals that of the loop run over the
\* entries processed so far with the zero-value calls removed.
C7_ZeroValueCallSuppressed ==
    InLoop =>
        /\ \A j \in DOMAIN emitted : IsZeroValueCall(traces[j]) => emitted[j] = <<>>
        /\ LoopState(operations, destroyed_accs, FALSE)
             = RunTraces(LoopState(<<>>, <<>>, FALSE),
                         SelectSeq(SubSeq(traces, 1, ti), NotZeroValueCall), op_len)
\* a reverted zero-value call came first and the entry after it emitted
\* operations starting at the starting index
C7_Witness ==
    /\ InLoop
    /\ ti = 2
    /\ IsZeroValueCall(traces[1]) /\ traces[1].revert
    /\ emitted[1] = <<>>
    /\ Len(emitted[2]) = 2
    /\ emitted[2][1].index = op_len

\* C8: a self-destruct entry with from = to yields exactly one operation, the
\* "from" operation (amount -value, no amount when value is 0): no "to" and no
\* destruct operation, for any value and any revert mark.
C8_SelfDestructToSelf ==
    InLoop =>
        \A j \in DOMAIN emitted :
            (traces[j].trace_type = "SELFDESTRUCT" /\ traces[j].from = traces[j].to) =>
                /\ Len(emitted[j]) = 1
                /\ emitted[j][1].type = "SELFDESTRUCT"
                /\ emitted[j][1].account = Some(to_checksum(traces[j].from))
                /\ emitted[j][1].related_operations = None
                /\ emitted[j][1].amount =
                      IF traces[j].value = 0 THEN None
                      ELSE Some([sign |-> "-", digits |-> traces[j].value])
\* a reverted self-destruct to itself carrying value has been processed
C8_Witness ==
    /\ InLoop
    /\ \E j \in DOMAIN emitted :
         /\ traces[j].trace_type = "SELFDESTRUCT" /\ traces[j].from = traces[j].to
         /\ traces[j].value = 1 /\ traces[j].revert
         /\ Len(emitted[j]) = 1


---------------------------------------------------------------------------
\* Polkadot events (chains/polkadot/server/src/block.rs).
\* A scale_value ValueDef is a primitive (U128(n) or another primitive) or a
\* composite (named or unnamed) of values; a named composite's fields are
\* modelled by their values alone where the names are never read.
U128(n) == [def |-> "U128", n |-> n, values |-> <<>>]
OtherPrimitive == [def |-> "Bool", n |-> 0, values |-> <<>>]
Composite(shape, vals) == [def |-> shape, n |-> 0, values |-> vals]
IsComposite(v) == v.def \in {"Named", "Unnamed"}

\* crypto::address: Address::from_public_key_bytes(format, bytes).address()
AddressString(bytes) == <<"ss58", bytes>>

\* block.rs:185  val as u8
\* (variant: no truncation)
AsU8MutKeep(n) == n
AsU8(n) == n % 256

\* block.rs:175-200
RECURSIVE AddrBytes(_)
AddrBytes(vals) ==
    \* the bytes of a sequence of U128 primitives
    IF vals = <<>> THEN <<>> ELSE <<AsU8(Head(vals).n)>> \o AddrBytes(Tail(vals))
RECURSIVE AddrArray(_)
AddrArray(outer) ==
    IF outer = <<>> THEN <<>> ELSE AddrBytes(Head(outer).values) \o AddrArray(Tail(outer))
\* (variant: an element that is not a composite is passed over)
generate_addressMutSkip(val) ==
    IF val.def # "Unnamed" THEN Err("invalid operation")
    ELSE IF \E i \in DOMAIN val.values : \E k \in DOMAIN val.values[i].values :
                val.values[i].values[k].def # "U128"
    THEN Err("invalid operation")
    ELSE [tag |-> "Ok", ops |-> <<>>, msg |-> AddressString(AddrArray(val.values))]
generate_address(val) ==
    IF val.def # "Unnamed" THEN Err("invalid operation")
    ELSE IF \E i \in DOMAIN val.values : ~IsComposite(val.values[i])
    THEN Err("invalid operation")
    ELSE IF \E i \in DOMAIN val.values : \E k \in DOMAIN val.values[i].values :
                val.values[i].values[k].def # "U128"
    THEN Err("invalid operation")
    ELSE [tag |-> "Ok", ops |-> <<>>, msg |-> AddressString(AddrArray(val.values))]

\* u128::to_string and format!("-{amount}")
U128ToString(n) == [sign |-> "", digits |-> n]
NegString(a) == [sign |-> "-" \o a.sign, digits |-> a.digits]

\* block.rs:107-110, 121-124, 142  the fields a filter keeps, in field order
SenderNames == {"from", "who", "account"}
AmountNames == {"amount", "actual_fee"}
ReceiverNames == {"to"}
\* (variant: the matches are kept last match first)
RECURSIVE FilterFieldsMutLast(_, _)
FilterFieldsMutLast(fields, names) ==
    IF fields = <<>> THEN <<>>
    ELSE FilterFieldsMutLast(Tail(fields), names)
         \o (IF Head(fields).name \in names THEN <<Head(fields)>> ELSE <<>>)
RECURSIVE FilterFields(_, _)
FilterFields(fields, names) ==
    IF fields = <<>> THEN <<>>
    ELSE (IF Head(fields).name \in names THEN <<Head(fields)>> ELSE <<>>)
         \o FilterFields(Tail(fields), names)

\* block.rs:168-173
TransactionOperationStatus(event_type, from, amount, to) ==
    [tag |-> "Ok", event_type |-> event_type, from |-> from, amount |-> amount, to |-> to]
ParseErr == [tag |-> "Err", event_type |-> "", from |-> None, amount |-> None, to |-> None]

\* block.rs:102
CallType(pallet_name, event_name) == pallet_name \o "." \o event_name

\* block.rs:95-166
get_operation_data(event) ==
    IF event.shape # "Named" THEN ParseErr
    ELSE
    LET value == event.fields
        from_data == FilterFields(value, SenderNames)
        amount_data == FilterFields(value, AmountNames)
        to_data == FilterFields(value, ReceiverNames)
        sender == IF from_data # <<>> THEN generate_address(Head(from_data).value)
                  ELSE Ok(<<>>)
        receiver == IF to_data # <<>> THEN generate_address(Head(to_data).value)
                    ELSE Ok(<<>>)
    IN  IF from_data # <<>> /\ sender.tag = "Err" THEN ParseErr
        ELSE IF amount_data # <<>> /\ Head(amount_data).value.def # "U128" THEN ParseErr
        ELSE IF to_data # <<>> /\ receiver.tag = "Err" THEN ParseErr
        ELSE TransactionOperationStatus(
                CallType(event.pallet, event.variant),
                IF from_data # <<>> THEN Some(sender.msg) ELSE None,
                IF amount_data # <<>> THEN Some(U128ToString(Head(amount_data).value.n))
                                      ELSE None,
                IF to_data # <<>> THEN Some(receiver.msg) ELSE None)

\* block.rs:26-30  the event metadata's field names and type names
RECURSIVE OpMetadata(_)
OpMetadata(fields) ==
    IF fields = <<>> THEN <<>>
    ELSE <<[name |-> Head(fields).name, type |-> Head(fields).type_name]>>
         \o OpMetadata(Tail(fields))

\* block.rs:64  the index of the receiver operation
\* (variant: the receiver takes the next index)
ReceiverIndexMutNext(idx) == idx + 1
ReceiverIndex(idx) == idx

\* block.rs:61  both a receiver and an amount were found
\* (variant: a sender is required as well)
HasReceiverMutNeedsSender(d) == IsSome(d.from) /\ IsSome(d.to) /\ IsSome(d.amount)
HasReceiver(d) == IsSome(d.to) /\ IsSome(d.amount)

\* block.rs:26-83  the operations of one parsed event
EventOperations(event, d, idx) ==
    LET op_metadata == OpMetadata(event.fields)
        operation ==
            Operation(idx, None, d.event_type, None, d.from,
                      IF IsSome(d.amount) THEN Some(NegString(Unwrap(d.amount))) ELSE None,
                      Some(op_metadata))
        receiver ==
            Operation(ReceiverIndex(idx), None, d.event_type, None, d.to,
                      d.amount, Some(op_metadata))
    IN  IF HasReceiver(d) THEN <<operation, receiver>> ELSE <<operation>>

\* block.rs:22-84  one iteration of the loop over the events
ProcessEvent ==
    /\ pc = "events"
    /\ event_index < Len(events)
    /\ LET event == events[event_index + 1]
           d == get_operation_data(event)
       IN  IF d.tag = "Err"
           THEN /\ result' = Err("invalid operation")
                /\ pc' = "done"
                /\ UNCHANGED <<operations, event_index, emitted>>
           ELSE /\ operations' = operations \o EventOperations(event, d, event_index)
                /\ emitted' = Append(emitted, EventOperations(event, d, event_index))
                /\ event_index' = event_index + 1
                /\ UNCHANGED <<pc, result>>
    /\ UNCHANGED <<tx_operations, procs, block, tx, receipt, trace, op_len, traces, ti, destroyed_accs, events>>

\* block.rs:85-92
ReturnTransaction ==
    /\ pc = "events"
    /\ event_index = Len(events)
    /\ result' = Ok(operations)
    /\ pc' = "done"
    /\ UNCHANGED <<tx_operations, procs, block, tx, receipt, trace, op_len, traces, ti, operations,
                   destroyed_accs, events, event_index, emitted>>

NextEvent == ProcessEvent \/ ReturnTransaction

\* Inputs.  The value of the field at position k of event e is an account id
\* decoded as the numbers <<10 e + k, 256 + e>>, the amount 300 e + k, or a
\* primitive of another type; an event may also have unnamed fields.
FieldNames == {"from", "amount", "to", "other"}
FieldKinds == {"account", "u128", "bool"}
FieldValue(kind, e, k) ==
    IF kind = "account"
    THEN Composite("Unnamed", <<Composite("Unnamed", <<U128(10 * e + k), U128(256 + e)>>)>>)
    ELSE IF kind = "u128" THEN U128(300 * e + k)
    ELSE IF kind = "flat" THEN Composite("Unnamed", <<U128(10 * e + k), U128(256 + e)>>)
    ELSE IF kind = "badbyte"
    THEN Composite("Unnamed", <<Composite("Unnamed", <<U128(10 * e + k), OtherPrimitive>>)>>)
    ELSE OtherPrimitive
TypeName(kind) ==
    IF kind = "account" THEN "AccountId32" ELSE IF kind = "u128" THEN "u128"
    ELSE IF kind \in {"flat", "badbyte"} THEN kind ELSE "bool"

\* the numbers of fields of up to MaxEvents events, MaxFields fields at most in all
RECURSIVE SumSeq(_)
SumSeq(q) == IF q = <<>> THEN 0 ELSE Head(q) + SumSeq(Tail(q))
FieldCounts ==
    UNION {{c \in [1 .. n -> 0 .. MaxFields] : SumSeq(c) <= MaxFields} : n \in 0 .. MaxEvents}

\* event e, its count fields being names[off + 1 .. off + count]
NamedEvent(e, names, kinds, off, count) ==
    [pallet |-> "Balances", variant |-> "E" \o ToString(e), shape |-> "Named",
     fields |-> [k \in 1 .. count |->
                    [name |-> names[off + k], type_name |-> TypeName(kinds[off + k]),
                     value |-> FieldValue(kinds[off + k], e, k)]]]
UnnamedEvent(e) ==
    [pallet |-> "Balances", variant |-> "E" \o ToString(e), shape |-> "Unnamed",
     fields |-> <<>>]

InitEvent ==
    /\ pc = "events"
    /\ \E c \in FieldCounts :
         \E names \in [1 .. SumSeq(c) -> FieldNames],
            kinds \in [1 .. SumSeq(c) -> FieldKinds],
            unnamed \in [DOMAIN c -> BOOLEAN] :
            /\ \A e \in DOMAIN c : unnamed[e] => c[e] = 0
            /\ events = [e \in DOMAIN c |->
                           IF unnamed[e] THEN UnnamedEvent(e)
                           ELSE NamedEvent(e, names, kinds,
                                           SumSeq(SubSeq(c, 1, e - 1)), c[e])]
    /\ block = NoBlock
    /\ tx = NoTx
    /\ receipt = NoReceipt
    /\ trace = <<>>
    /\ op_len = 0
    /\ traces = <<>>
    /\ ti = 0
    /\ operations = <<>>
    /\ destroyed_accs = <<>>
    /\ event_index = 0
    /\ emitted = <<>>
    /\ tx_operations = <<>>
    /\ procs = <<>>
    /\ result = NoResult

SpecEvent == InitEvent /\ [][NextEvent]_vars


---------------------------------------------------------------------------
\* Event claims.
EventsRunning == pc \in {"events", "done"} /\ trace = <<>> /\ block = NoBlock
FieldsNamed(ev, n) == {k \in DOMAIN ev.fields : ev.fields[k].name = n}
\* a named-field event with one from (an account), one amount (a u128) and
\* one to (an account), and no field under another sender or amount alias
IsTransferEvent(ev) ==
    /\ ev.shape = "Named"
    /\ Cardinality(FieldsNamed(ev, "from")) = 1
    /\ Cardinality(FieldsNamed(ev, "amount")) = 1
    /\ Cardinality(FieldsNamed(ev, "to")) = 1
    /\ \A k \in DOMAIN ev.fields :
          /\ ev.fields[k].name \notin {"who", "account", "actual_fee"}
          /\ ev.fields[k].name \in {"from", "to"} => ev.fields[k].type_name = "AccountId32"
          /\ ev.fields[k].name = "amount" => ev.fields[k].type_name = "u128"
TheField(ev, n) == CHOOSE k \in DOMAIN ev.fields : ev.fields[k].name = n

\* C10: an event at position i with named fields from = addr_a, amount = A
\* (u128) and to = addr_b emits exactly two operations, the sender's (addr_a,
\* -A) then the receiver's (addr_b, +A), both of kind "{pallet}.{variant}",
\* without status, with the same field metadata, and both with index i.
C10_TransferEventPair ==
    EventsRunning =>
        \A j \in DOMAIN emitted :
            IsTransferEvent(events[j]) =>
                LET ev == events[j]
                    a == <<"ss58", <<10 * j + TheField(ev, "from"), j>>>>
                    b == <<"ss58", <<10 * j + TheField(ev, "to"), j>>>>
                    A == 300 * j + TheField(ev, "amount")
                    meta == [k \in DOMAIN ev.fields |->
                                [name |-> ev.fields[k].name, type |-> ev.fields[k].type_name]]
                    sender == [index |-> j - 1, related_operations |-> None,
                               type |-> "Balances.E" \o ToString(j), status |-> None,
                               account |-> Some(a),
                               amount |-> Some([sign |-> "-", digits |-> A]),
                               metadata |-> Some(meta)]
                    receiver == [index |-> j - 1, related_operations |-> None,
                                 type |-> "Balances.E" \o ToString(j), status |-> None,
                                 account |-> Some(b),
                                 amount |-> Some([sign |-> "", digits |-> A]),
                                 metadata |-> Some(meta)]
                IN  emitted[j] = <<sender, receiver>>
\* the second event of an extrinsic is such an event and has been processed
C10_Witness ==
    /\ EventsRunning
    /\ Len(emitted) = 2
    /\ IsTransferEvent(events[2])
    /\ Len(emitted[2]) = 2
    /\ emitted[2][2].index = 1

\* C3 as stated: in every Transaction produced, by either engine, the
\* operation indices are pairwise distinct and strictly increasing along the
\* operation sequence.
C3_IndicesStrictlyIncreasing ==
    (pc = "done" /\ result.tag = "Ok") =>
        \A x, y \in DOMAIN result.ops :
            x < y => result.ops[x].index < result.ops[y].index


---------------------------------------------------------------------------
\* The three programs together
---------------------------------------------------------------------------
\* Determinism of get_trace_operations.  The loop step of the model chooses
\* the build's overflow behaviour and the HashMap's iteration order freely;
\* RunTraces resolves both choices in one fixed way.

---------------------------------------------------------------------------
\* get_transaction of the Ethereum connector (utils.rs:22-69) as a process.
\* block carries hash and number besides the fee fields; receipt carries what
\* get_transaction_receipt answered (an RPC error, no receipt, or a receipt)
\* and the receipt's block_hash.

\* utils.rs:28-39  the receipt checks; NoResult when they pass
\* (variant: the receipt's block hash is not compared with the block's)
CheckReceiptMutNoCompare(b, r) ==
    IF r.fetched = "Err" THEN Err("get_transaction_receipt failed")
    ELSE IF r.fetched = "None" THEN Err("Transaction receipt not found")
    ELSE IF ~IsSome(r.block_hash) THEN Err("Block hash not found in tx receipt")
    ELSE IF ~IsSome(b.hash) THEN Panic("called Option::unwrap() on a None value")
    ELSE NoResult
CheckReceipt(b, r) ==
    IF r.fetched = "Err" THEN Err("get_transaction_receipt failed")
    ELSE IF r.fetched = "None" THEN Err("Transaction receipt not found")
    ELSE IF ~IsSome(r.block_hash) THEN Err("Block hash not found in tx receipt")
    ELSE IF ~IsSome(b.hash) THEN Panic("called Option::unwrap() on a None value")
    ELSE IF Unwrap(r.block_hash) # Unwrap(b.hash)
    THEN Err("Transaction receipt block hash does not match block hash")
    ELSE NoResult

\* utils.rs:44  the ? applied to get_fee_operations' result: what get_transaction
\* returns at once (NoResult when it goes on) and the fee operations it goes on with
\* (variant: an error of get_fee_operations is replaced by an empty list)
TryFeeOpsMutDefault(r) ==
    IF r.tag = "Panic" THEN [ret |-> r, fee_ops |-> <<>>]
    ELSE [ret |-> NoResult, fee_ops |-> r.ops]
TryFeeOps(r) ==
    IF r.tag = "Ok" THEN [ret |-> NoResult, fee_ops |-> r.ops]
    ELSE [ret |-> r, fee_ops |-> <<>>]

\* utils.rs:28-39
TxReceipt ==
    /\ pc = "tx_receipt"
    /\ LET r == CheckReceipt(block, receipt)
       IN  IF r = NoResult
           THEN pc' = "tx_fee" /\ UNCHANGED result
           ELSE pc' = "done" /\ result' = r
    /\ UNCHANGED <<tx_operations, procs, block, tx, receipt, trace, op_len, traces, ti,
                   operations, destroyed_accs, events, event_index, emitted>>

\* utils.rs:43-45
TxFee ==
    /\ pc = "tx_fee"
    /\ LET f == TryFeeOps(get_fee_operations(block, tx, receipt))
       IN  IF f.ret = NoResult
           THEN /\ tx_operations' = <<>> \o f.fee_ops
                /\ pc' = "tx_trace"
                /\ UNCHANGED result
           ELSE /\ result' = f.ret
                /\ pc' = "done"
                /\ UNCHANGED tx_operations
    /\ UNCHANGED <<procs, block, tx, receipt, trace, op_len, traces, ti,
                   operations, destroyed_accs, events, event_index, emitted>>

\* utils.rs:47  block.number.unwrap().as_u64() != 0, negated
\* (variant: the trace is fetched for every block)
TraceSkippedMutNever(b) == FALSE
TraceSkipped(b) == Unwrap(b.number) = 0

\* utils.rs:47, 52-68  block number 0: no trace is fetched
TxSkipTrace ==
    /\ pc = "tx_trace"
    /\ IsSome(block.number) /\ TraceSkipped(block)
    /\ result' = Ok(tx_operations)
    /\ pc' = "done"
    /\ UNCHANGED <<tx_operations, procs, block, tx, receipt, trace, op_len, traces, ti,
                   operations, destroyed_accs, events, event_index, emitted>>

\* utils.rs:47-49  the trace is fetched (the request may fail) and
\* get_trace_operations is entered with op_len = operations.len()
TxTrace ==
    /\ pc = "tx_trace"
    /\ ~(IsSome(block.number) /\ TraceSkipped(block))
    /\ IF ~IsSome(block.number)
       THEN /\ result' = Panic("called Option::unwrap() on a None value")
            /\ pc' = "done"
            /\ UNCHANGED op_len
       ELSE \E fetched \in BOOLEAN :
              IF fetched
              THEN /\ op_len' = Len(tx_operations)
                   /\ pc' = "flatten"
                   /\ UNCHANGED result
              ELSE /\ result' = Err("debug_traceTransaction failed")
                   /\ pc' = "done"
                   /\ UNCHANGED op_len
    /\ UNCHANGED <<tx_operations, procs, block, tx, receipt, trace, traces, ti,
                   operations, destroyed_accs, events, event_index, emitted>>

\* utils.rs:356, 49-68  get_trace_operations returns its list, get_transaction
\* appends it to its own and returns the Transaction
TxExtend ==
    /\ pc = "for"
    /\ ti = Len(traces)
    /\ tx_operations' = tx_operations \o operations
    /\ result' = Ok(tx_operations')
    /\ pc' = "done"
    /\ UNCHANGED <<procs, block, tx, receipt, trace, op_len, traces, ti,
                   operations, destroyed_accs, events, event_index, emitted>>

NextTx == TxReceipt \/ TxFee \/ TxSkipTrace \/ TxTrace \/ Flatten \/ ProcessEntry \/ TxExtend

\* Inputs of get_transaction
TxHashes == {1, 2}
TxBlockNumbers == {0, 1}
TxBlocks == [author : Option({2}), base_fee_per_gas : Option({0, 1, 2}),
             hash : Option({1}), number : Option(TxBlockNumbers)]
TxTxs == [from : {1}, transaction_type : Option({0, 2}), gas_price : Option({1}),
          max_priority_fee_per_gas : Option({1})]
TxReceipts == [fetched : {"Err", "None", "Some"}, block_hash : Option(TxHashes),
               gas_used : Option({1})]
\* a one-node trace: a call carrying value
TxOneCall ==
    << [node |-> 1, from |-> 1, to |-> 2, value |-> 1, trace_type |-> CALL_OP_TYPE,
        revert |-> FALSE, error_message |-> "", calls |-> <<>>] >>

TxIdle ==
    /\ pc = "tx_receipt"
    /\ op_len = 0
    /\ traces = <<>>
    /\ ti = 0
    /\ operations = <<>>
    /\ destroyed_accs = <<>>
    /\ events = <<>>
    /\ event_index = 0
    /\ emitted = <<>>
    /\ tx_operations = <<>>
    /\ procs = <<>>
    /\ result = NoResult

\* Either the block, transaction and receipt vary over every combination of
\* present and absent fields and the trace is one call, or every field is
\* present, the block number is not 0 and the trace varies.
InitTx ==
    /\ TxIdle
    /\ \/ /\ block \in TxBlocks
          /\ tx \in TxTxs
          /\ receipt \in TxReceipts
          /\ trace = TxOneCall
       \/ /\ \E bf \in {0, 1} :
               block = [author |-> Some(2), base_fee_per_gas |-> Some(bf),
                        hash |-> Some(1), number |-> Some(1)]
          /\ tx = [from |-> 1, transaction_type |-> Some(2), gas_price |-> Some(1),
                   max_priority_fee_per_gas |-> Some(1)]
          /\ receipt = [fetched |-> "Some", block_hash |-> Some(1), gas_used |-> Some(1)]
          /\ \E n \in 1 .. MaxOpNodes :
               \E p \in Parents(n), xfer \in [1 .. n -> Transfers],
                  val \in [1 .. n -> TraceValues], kind \in [1 .. n -> TraceTypes] :
                  trace = [i \in 1 .. n |->
                             [node |-> i, from |-> xfer[i][1], to |-> xfer[i][2],
                              value |-> val[i], trace_type |-> kind[i], revert |-> FALSE,
                              error_message |-> "", calls |-> Calls(p, n, i)]]

SpecTx == InitTx /\ [][NextTx]_vars

\* the fee stage is reached: the receipt checks passed
FeeStageReached ==
    /\ pc \notin {"tx_receipt", "tx_fee"}
    /\ receipt.fetched = "Some" /\ IsSome(receipt.block_hash) /\ IsSome(block.hash)
    /\ Unwrap(receipt.block_hash) = Unwrap(block.hash)
\* the messages of get_fee_operations' precondition errors, in the order of the checks
FeePreconditionMessages ==
    << "block has no author", "block has no base fee", "transaction type unavailable",
       "gas price is not available", "gas used is not available" >>
FeeFieldAbsent ==
    << ~IsSome(block.author), ~IsSome(block.base_fee_per_gas),
       ~IsSome(tx.transaction_type), ~IsSome(tx.gas_price), ~IsSome(receipt.gas_used) >>
MissingFeeField == \E i \in 1 .. 5 : FeeFieldAbsent[i]
FirstMissingFeeField == CHOOSE i \in 1 .. 5 : FeeFieldAbsent[i] /\ \A k \in 1 .. i - 1 : ~FeeFieldAbsent[k]

\* C12: when the block has no author or no base fee, the transaction no type
\* or no gas price (also a fee-market one), or the receipt no gas used, the
\* fee stage of get_transaction ends in an error naming the first missing
\* field, and get_transaction returns that error: no Transaction, no operation
\* built.  An absent priority fee alone is no such error: the fee operations
\* are built (unless the fee arithmetic panics).
C12_MissingFeeFieldIsError ==
    FeeStageReached =>
        /\ MissingFeeField =>
             /\ pc = "done"
             /\ result = Err(FeePreconditionMessages[FirstMissingFeeField])
             /\ tx_operations = <<>> /\ operations = <<>>
        /\ ~MissingFeeField =>
             /\ ~(result.tag = "Err" /\ \E i \in 1 .. 5 : result.msg = FeePreconditionMessages[i])
             /\ (~IsSome(tx.max_priority_fee_per_gas) /\ result.tag # "Panic")
                   => Len(tx_operations) >= 2
\* a fee-market transaction without gas price, all else present, was refused
C12_Witness ==
    /\ FeeStageReached
    /\ tx.transaction_type = Some(2) /\ ~IsSome(tx.gas_price)
    /\ IsSome(block.author) /\ IsSome(block.base_fee_per_gas) /\ IsSome(receipt.gas_used)
    /\ result = Err("gas price is not available")

\* C13: when the receipt's block hash differs from the block's hash,
\* get_transaction returns an error before any fee or trace operation is
\* built, and the error is not one of the missing-field errors.
C13_BlockHashMismatchAborts ==
    (/\ pc # "tx_receipt"
     /\ receipt.fetched = "Some" /\ IsSome(receipt.block_hash) /\ IsSome(block.hash)
     /\ Unwrap(receipt.block_hash) # Unwrap(block.hash)) =>
        /\ pc = "done"
        /\ result.tag = "Err" /\ result.ops = <<>>
        /\ tx_operations = <<>> /\ operations = <<>> /\ emitted = <<>>
        /\ \A i \in 1 .. 5 : result.msg # FeePreconditionMessages[i]
        /\ result.msg \notin {"Transaction receipt not found", "Block hash not found in tx receipt"}
\* the hashes differ while every fee field is present and the block number is not 0
C13_Witness ==
    /\ pc = "done"
    /\ receipt.fetched = "Some" /\ receipt.block_hash = Some(2) /\ block.hash = Some(1)
    /\ ~MissingFeeField /\ block.number = Some(1)
    /\ result.tag = "Err"

---------------------------------------------------------------------------
\* block_reward_transaction (utils.rs:359-452).
\* block carries number, hash, author and, for every entry of block.uncles,
\* what get_uncle answered: an RPC error, no block, or the uncle block.

\* Reward constants and fork thresholds of eth_types, scaled to the model's
\* word: the rewards keep the ratio 5 : 3 : 2 and are multiples of
\* UNCLE_REWARD_MULTIPLIER and MAX_UNCLE_DEPTH.
FRONTIER_BLOCK_REWARD == 160
BYZANTIUM_BLOCK_REWARD == 96
CONSTANTINOPLE_BLOCK_REWARD == 64
MAX_UNCLE_DEPTH == 8
UNCLE_REWARD_MULTIPLIER == 32
TESTNET_CHAIN_CONFIG == [byzantium_block |-> 10, constantinople_block |-> 20]
MINING_REWARD_OP_TYPE == "MINING_REWARD"
UNCLE_REWARD_OP_TYPE == "UNCLE_REWARD"

\* utils.rs:378-388
\* (variant: with uncles the reward grows by reward / multiplier)
MiningRewardMutLinear(block_number, has_uncles) ==
    LET chain_config == TESTNET_CHAIN_CONFIG
        r0 == FRONTIER_BLOCK_REWARD
        r1 == IF chain_config.byzantium_block <= block_number
              THEN BYZANTIUM_BLOCK_REWARD ELSE r0
        r2 == IF chain_config.constantinople_block <= block_number
              THEN CONSTANTINOPLE_BLOCK_REWARD ELSE r1
    IN  IF has_uncles THEN r2 + (r2 \div UNCLE_REWARD_MULTIPLIER) ELSE r2
MiningReward(block_number, has_uncles) ==
    LET chain_config == TESTNET_CHAIN_CONFIG
        r0 == FRONTIER_BLOCK_REWARD
        r1 == IF chain_config.byzantium_block <= block_number
              THEN BYZANTIUM_BLOCK_REWARD ELSE r0
        r2 == IF chain_config.constantinople_block <= block_number
              THEN CONSTANTINOPLE_BLOCK_REWARD ELSE r1
    IN  IF has_uncles THEN r2 + (r2 \div UNCLE_REWARD_MULTIPLIER) * r2 ELSE r2

\* utils.rs:391-411
MiningRewardOperation(miner, mining_reward) ==
    Operation(0, None, MINING_REWARD_OP_TYPE, Some(SUCCESS_STATUS),
              Some(to_checksum(miner)), Some(FmtPos(mining_reward)), None)

\* utils.rs:420-440
\* (variant: the operation is credited to the author of the enclosing block)
UncleRewardOperationMutMiner(miner, uncle_miner, uncle_block_reward, index) ==
    Operation(index, None, UNCLE_REWARD_OP_TYPE, Some(SUCCESS_STATUS),
              Some(to_checksum(miner)), Some(FmtPos(uncle_block_reward)), None)
UncleRewardOperation(miner, uncle_miner, uncle_block_reward, index) ==
    Operation(index, None, UNCLE_REWARD_OP_TYPE, Some(SUCCESS_STATUS),
              Some(to_checksum(uncle_miner)), Some(FmtPos(uncle_block_reward)), None)

\* utils.rs:417-418
\* (variant: the reward is not divided by the maximal uncle depth)
UncleBlockRewardMutNoDivision(uncle_number, block_number, mining_reward) ==
    (uncle_number + MAX_UNCLE_DEPTH - block_number) * mining_reward
UncleBlockReward(uncle_number, block_number, mining_reward) ==
    (uncle_number + MAX_UNCLE_DEPTH - block_number) * (mining_reward \div MAX_UNCLE_DEPTH)

\* utils.rs:414-442  the loop over the fetched uncles; U64 arithmetic panics
\* on overflow and underflow
RECURSIVE UncleLoop(_, _, _, _, _)
UncleLoop(uncles, ops, block_number, mining_reward, miner) ==
    IF uncles = <<>> THEN Ok(ops)
    ELSE
    LET uncle == Head(uncles)
    IN  IF ~IsSome(uncle.author) THEN Err("Uncle block has no author")
        ELSE IF ~IsSome(uncle.number) THEN Err("Uncle block has no number")
        ELSE
        LET uncle_miner == Unwrap(uncle.author)
            uncle_number == Unwrap(uncle.number)
        IN  IF \/ AddOverflows(uncle_number, MAX_UNCLE_DEPTH)
               \/ SubUnderflows(uncle_number + MAX_UNCLE_DEPTH, block_number)
               \/ MulOverflows(uncle_number + MAX_UNCLE_DEPTH - block_number,
                               mining_reward \div MAX_UNCLE_DEPTH)
            THEN Panic("arithmetic operation overflow")
            ELSE
            LET uncle_block_reward ==
                    UncleBlockReward(uncle_number, block_number, mining_reward)
            IN  UncleLoop(Tail(uncles),
                          Append(ops,
                                 UncleRewardOperation(miner, uncle_miner, uncle_block_reward,
                                                      Len(ops))),
                          block_number, mining_reward, miner)

\* utils.rs:369-376  the first uncle that get_uncle does not deliver
FetchFailures(uncles) == {i \in DOMAIN uncles : uncles[i].fetched # "Some"}
FirstFetchFailure(uncles) ==
    CHOOSE i \in FetchFailures(uncles) : \A k \in FetchFailures(uncles) : i <= k

\* utils.rs:359-452
block_reward_transaction(b) ==
    IF ~IsSome(b.number) THEN Err("missing block number")
    ELSE IF ~IsSome(b.hash) THEN Err("missing block hash")
    ELSE IF ~IsSome(b.author) THEN Panic("called Option::unwrap() on a None value")
    ELSE IF FetchFailures(b.uncles) # {}
    THEN IF b.uncles[FirstFetchFailure(b.uncles)].fetched = "Err"
         THEN Err("get_uncle failed") ELSE Err("Uncle block now found")
    ELSE
    LET block_number == Unwrap(b.number)
        miner == Unwrap(b.author)
        mining_reward == MiningReward(block_number, b.uncles # <<>>)
    IN  UncleLoop(b.uncles, <<MiningRewardOperation(miner, mining_reward)>>,
                  block_number, mining_reward, miner)

\* One call of block_reward_transaction
BlockRewardTransaction ==
    /\ pc = "reward"
    /\ result' = block_reward_transaction(block)
    /\ pc' = "done"
    /\ UNCHANGED <<tx_operations, procs, block, tx, receipt, trace, op_len, traces, ti,
                   operations, destroyed_accs, events, event_index, emitted>>

NextReward == BlockRewardTransaction

\* Inputs of block_reward_transaction
RewardBlockNumbers == {5, 10, 20}
UncleNumbers == {4, 9, 12, 19}
Uncles ==
    [fetched : {"Some"}, author : Option(H160s), number : Option(UncleNumbers)]
      \cup {[fetched |-> f, author |-> None, number |-> None] : f \in {"Err", "None"}}
UncleLists == UNION {[1 .. k -> Uncles] : k \in 0 .. MaxUncles}

InitReward ==
    /\ pc = "reward"
    /\ \E number \in Option(RewardBlockNumbers), hash \in Option({1}),
          author \in Option({1}), uncles \in UncleLists :
         block = [number |-> number, hash |-> hash, author |-> author, uncles |-> uncles]
    /\ tx = NoTx
    /\ receipt = NoReceipt
    /\ trace = <<>>
    /\ op_len = 0
    /\ traces = <<>>
    /\ ti = 0
    /\ operations = <<>>
    /\ destroyed_accs = <<>>
    /\ events = <<>>
    /\ event_index = 0
    /\ emitted = <<>>
    /\ tx_operations = <<>>
    /\ procs = <<>>
    /\ result = NoResult

SpecReward == InitReward /\ [][NextReward]_vars

RewardReturned == pc = "done" /\ block # NoBlock /\ "uncles" \in DOMAIN block

\* C14: a block without author makes block_reward_transaction return an error
\* value, not crash, and no operation list.
C14_NoAuthorIsError ==
    (RewardReturned /\ ~IsSome(block.author)) =>
        result.tag = "Err" /\ result.ops = <<>>

C16_MalformedUncleIsError ==
    (/\ RewardReturned
     /\ \E i \in DOMAIN block.uncles :
          /\ block.uncles[i].fetched = "Some"
          /\ ~IsSome(block.uncles[i].author) \/ ~IsSome(block.uncles[i].number)) =>
        result.tag = "Err" /\ result.ops = <<>>

---------------------------------------------------------------------------
\* Two invocations of get_trace_operations running concurrently, interleaved
\* at the granularity of one iteration of the for loop.  procs[p] holds the
\* locals of invocation p: its flattened traces, op_len, the loop position,
\* operations and destroyed_accs (utils.rs:201-203), and what it returned.

Invocations == {1, 2}

\* utils.rs:201  operations is a local of the invocation
\* (variant: one operations vector shared by all invocations)
OperationsOfMutShared(ps, p) == ps[1].operations
OperationsOf(ps, p) == ps[p].operations
\* utils.rs:203  destroyed_accs is a local of the invocation
LedgerOf(ps, p) == ps[p].destroyed_accs

\* utils.rs:209-354  one iteration of invocation p
ConcEntry(p) ==
    /\ pc = "conc"
    /\ procs[p].pc = "for"
    /\ procs[p].ti < Len(procs[p].traces)
    /\ \E checks \in BOOLEAN :
       \E order \in KeyOrders(DrainKeys(LoopState(OperationsOf(procs, p), LedgerOf(procs, p),
                                                  FALSE),
                                        procs[p].traces[procs[p].ti + 1], procs[p].op_len,
                                        checks)) :
         LET me == procs[p]
             st == ProcessTrace(LoopState(OperationsOf(procs, p), LedgerOf(procs, p), FALSE),
                                me.traces[me.ti + 1], me.op_len, checks, order)
         IN  procs' = [procs EXCEPT ![p] =
                 IF st.panicked
                 THEN [me EXCEPT !.pc = "done", !.result = Panic("panicked")]
                 ELSE [me EXCEPT !.operations = st.operations,
                                 !.destroyed_accs = st.destroyed_accs,
                                 !.ti = me.ti + 1]]
    /\ UNCHANGED <<pc, tx_operations, block, tx, receipt, trace, op_len, traces, ti,
                   operations, destroyed_accs, events, event_index, emitted, result>>

\* utils.rs:356  invocation p returns
ConcReturn(p) ==
    /\ pc = "conc"
    /\ procs[p].pc = "for"
    /\ procs[p].ti = Len(procs[p].traces)
    /\ procs' = [procs EXCEPT ![p] =
                   [@ EXCEPT !.pc = "done", !.result = Ok(OperationsOf(procs, p))]]
    /\ UNCHANGED <<pc, tx_operations, block, tx, receipt, trace, op_len, traces, ti,
                   operations, destroyed_accs, events, event_index, emitted, result>>

NextConc == \E p \in Invocations : ConcEntry(p) \/ ConcReturn(p)

\* Inputs: the flattened traces of an invocation are a list of up to
\* MaxOpNodes entries, each a value-carrying call, a zero-value call, a
\* self-destruct to itself or a create.
ConcTrace(kind, from, to, value) ==
    [node |-> 0, from |-> from, to |-> to, value |-> value, trace_type |-> kind,
     revert |-> FALSE, error_message |-> ""]
ConcEntries ==
    { ConcTrace(CALL_OP_TYPE, 1, 2, 1), ConcTrace(CALL_OP_TYPE, 1, 2, 0),
      ConcTrace(SELF_DESTRUCT_OP_TYPE, 1, 1, 1), ConcTrace(CREATE_OP_TYPE, 2, 1, 1) }
ConcTraces == UNION {[1 .. n -> ConcEntries] : n \in 1 .. MaxOpNodes}
\* the starting index of each invocation
ConcOpLen == <<2, 3>>

InitConc ==
    /\ pc = "conc"
    /\ \E ts \in [Invocations -> ConcTraces] :
         procs = [p \in Invocations |->
                    [pc |-> "for", traces |-> ts[p], op_len |-> ConcOpLen[p], ti |-> 0,
                     operations |-> <<>>, destroyed_accs |-> <<>>, result |-> NoResult]]
    /\ block = NoBlock
    /\ tx = NoTx
    /\ receipt = NoReceipt
    /\ trace = <<>>
    /\ op_len = 0
    /\ traces = <<>>
    /\ ti = 0
    /\ operations = <<>>
    /\ destroyed_accs = <<>>
    /\ events = <<>>
    /\ event_index = 0
    /\ emitted = <<>>
    /\ tx_operations = <<>>
    /\ result = NoResult

SpecConc == InitConc /\ [][NextConc]_vars

\* invocation p run alone over its first n entries
Alone(p, n) ==
    RunTraces(LoopState(<<>>, <<>>, FALSE), SubSeq(procs[p].traces, 1, n), procs[p].op_len)

\* C17: two invocations of the trace-operation builder share no mutable
\* state: under every interleaving of their loop iterations a step changes the
\* operations and the ledger of one invocation only, each invocation's
\* operations and ledger are at every moment those of the invocation run
\* alone over the entries it has consumed, and each returns the list it
\* returns when run alone.
C17_InvocationsIsolated ==
    /\ [](\A p \in DOMAIN procs :
            /\ procs[p].result.tag # "Panic"
            /\ LoopState(procs[p].operations, procs[p].destroyed_accs, FALSE)
                 = Alone(p, procs[p].ti)
            /\ procs[p].pc = "done" =>
                 procs[p].result = Ok(Alone(p, Len(procs[p].traces)).operations))
    /\ [][\A p, q \in DOMAIN procs :
            (p # q /\ procs'[p] # procs[p]) => procs'[q] = procs[q]]_vars
\* both invocations are half way through their two entries, and each has
\* built operations of its own
C17_Witness ==
    /\ pc = "conc"
    /\ \A p \in Invocations :
         /\ Len(procs[p].traces) = 2 /\ procs[p].ti = 1
         /\ procs[p].operations # <<>>
    /\ procs[1].operations # procs[2].operations

---------------------------------------------------------------------------
\* Indices, pairing and status of the trace operations

\* C18: the operations of get_trace_operations have consecutive indices: the
\* j-th operation built (counting from 0) has index starting index + j; and in
\* the Transaction get_transaction returns, the operation at position p
\* (counting from 0) has index p.
C18_ConsecutiveIndices ==
    /\ \A j \in DOMAIN operations : operations[j].index = op_len + j - 1
    /\ (pc = "done" /\ result.tag = "Ok") =>
          \A p \in DOMAIN result.ops : result.ops[p].index = p - 1
\* a Transaction came back with three fee operations, the single operation of
\* a self-destruct to itself and a from/to pair after it
C18_Witness ==
    /\ pc = "done" /\ result.tag = "Ok"
    /\ op_len = 3
    /\ Len(emitted) = 2 /\ Len(emitted[1]) = 1 /\ Len(emitted[2]) = 2
    /\ Len(result.ops) = 6
    /\ result.ops[6].index = 5

IsSelfDestructToSelf(e) == e.trace_type = "SELFDESTRUCT" /\ e.from = e.to

\* C19: every flattened entry that emits operations and is not a
\* self-destruct with from = to emits one "from" and one "to" operation next
\* to each other: the "to" index is the "from" index + 1, the "to" operation's
\* related operations are exactly the "from" index, both carry the entry's
\* kind and status, the accounts are the entry's from and to, the amounts are
\* -value and +value, and no amount is present when the value is 0.
C19_FromToPair ==
    InLoop =>
        \A j \in DOMAIN emitted :
            (~IsZeroValueCall(traces[j]) /\ ~IsSelfDestructToSelf(traces[j])) =>
                /\ Len(emitted[j]) >= 2
                /\ \A k \in 3 .. Len(emitted[j]) : emitted[j][k].type = "DESTRUCT"
                /\ LET f == emitted[j][1]
                       t == emitted[j][2]
                       e == traces[j]
                   IN  /\ t.index = f.index + 1
                       /\ t.related_operations = Some(<<f.index>>)
                       /\ f.related_operations = None
                       /\ f.type = e.trace_type /\ t.type = e.trace_type
                       /\ f.status = Some(IF e.revert THEN "FAILURE" ELSE "SUCCESS")
                       /\ t.status = f.status
                       /\ f.account = Some(to_checksum(e.from))
                       /\ t.account = Some(to_checksum(e.to))
                       /\ f.amount = IF e.value = 0 THEN None
                                     ELSE Some([sign |-> "-", digits |-> e.value])
                       /\ t.amount = IF e.value = 0 THEN None
                                     ELSE Some([sign |-> "", digits |-> e.value])
\* a reverted create without value emitted its pair after a call with value
\* emitted its own
C19_Witness ==
    /\ InLoop
    /\ Len(emitted) = 2
    /\ traces[1].trace_type = "CALL" /\ traces[1].value = 1 /\ Len(emitted[1]) = 2
    /\ traces[2].trace_type = "CREATE" /\ traces[2].value = 0 /\ traces[2].revert
    /\ Len(emitted[2]) = 2
    /\ emitted[2][1].amount = None

\* C20: the operations of a reverted entry have status failure and their
\* metadata carries the entry's error message.
C20_RevertedOpsCarryError ==
    InLoop =>
        \A j \in DOMAIN emitted : \A k \in DOMAIN emitted[j] :
            (traces[j].revert /\ emitted[j][k].type # "DESTRUCT") =>
                /\ emitted[j][k].status = Some("FAILURE")
                /\ emitted[j][k].metadata # None
                /\ Unwrap(emitted[j][k].metadata) = [error |-> traces[j].error_message]
---------------------------------------------------------------------------
\* Events with several fields of one role (block.rs:105-154, 175-200).
\* One event of up to MaxAliasFields fields under any alias, of any value
\* shape, alone or after a well-formed transfer event.
MaxAliasFields == 2
AliasNames == SenderNames \cup AmountNames \cup ReceiverNames
AliasKinds == FieldKinds \cup {"flat", "badbyte"}
LeadEvent ==
    NamedEvent(1, <<"from", "amount", "to">>, <<"account", "u128", "account">>, 0, 3)

InitAlias ==
    /\ pc = "events"
    /\ \E lead \in BOOLEAN, unnamed \in BOOLEAN, n \in 0 .. MaxAliasFields :
         \E names \in [1 .. n -> AliasNames], kinds \in [1 .. n -> AliasKinds] :
            /\ unnamed => n = 0
            /\ LET e == IF lead THEN 2 ELSE 1
                   ev == IF unnamed THEN UnnamedEvent(e)
                         ELSE NamedEvent(e, names, kinds, 0, n)
               IN  events = IF lead THEN <<LeadEvent, ev>> ELSE <<ev>>
    /\ block = NoBlock
    /\ tx = NoTx
    /\ receipt = NoReceipt
    /\ trace = <<>>
    /\ op_len = 0
    /\ traces = <<>>
    /\ ti = 0
    /\ operations = <<>>
    /\ destroyed_accs = <<>>
    /\ event_index = 0
    /\ emitted = <<>>
    /\ tx_operations = <<>>
    /\ procs = <<>>
    /\ result = NoResult

SpecAlias == InitAlias /\ [][NextEvent]_vars

---------------------------------------------------------------------------
\* Claims on the operations of an event.
RoleFields(ev, names) == {k \in DOMAIN ev.fields : ev.fields[k].name \in names}
HasRole(ev, names) == RoleFields(ev, names) # {}
FirstOfRole(ev, names) ==
    CHOOSE k \in RoleFields(ev, names) : \A m \in RoleFields(ev, names) : k <= m
\* the fields selected for the three roles have the shapes extraction accepts
SelectedWellFormed(ev) ==
    /\ ev.shape = "Named"
    /\ HasRole(ev, {"from", "who", "account"})
         => ev.fields[FirstOfRole(ev, {"from", "who", "account"})].type_name = "AccountId32"
    /\ HasRole(ev, {"amount", "actual_fee"})
         => ev.fields[FirstOfRole(ev, {"amount", "actual_fee"})].type_name = "u128"
    /\ HasRole(ev, {"to"})
         => ev.fields[FirstOfRole(ev, {"to"})].type_name = "AccountId32"

\* C24: every parsed event yields one or two operations: the sender operation
\* always, without account and without amount when no such field was found;
\* the receiver operation if and only if both a to field and an amount field
\* were found, whether or not a sender was found.
C24_OneOrTwoOperations ==
    EventsRunning =>
        \A j \in DOMAIN emitted :
            LET ev == events[j]
                hasSender == HasRole(ev, {"from", "who", "account"})
                hasAmount == HasRole(ev, {"amount", "actual_fee"})
                hasTo == HasRole(ev, {"to"})
                ops == emitted[j]
            IN  /\ Len(ops) \in {1, 2}
                /\ (ops[1].account = None) <=> ~hasSender
                /\ (ops[1].amount = None) <=> ~hasAmount
                /\ hasAmount => Unwrap(ops[1].amount).sign = "-"
                /\ (Len(ops) = 2) <=> (hasTo /\ hasAmount)
                /\ Len(ops) = 2 =>
                      /\ ops[2].account # None
                      /\ ops[2].amount # None /\ Unwrap(ops[2].amount).sign = ""
\* an event with an amount and a receiver but no sender gave two operations,
\* the first without account, after an event without any such field gave one
\* operation without account and amount
C24_Witness ==
    /\ EventsRunning
    /\ Len(emitted) = 2
    /\ ~HasRole(events[1], {"from", "amount", "to"})
    /\ emitted[1][1].account = None /\ emitted[1][1].amount = None
    /\ ~HasRole(events[2], {"from"})
    /\ Len(emitted[2]) = 2
    /\ emitted[2][1].account = None /\ emitted[2][1].amount # None

\* C25: for each role the first matching field in field order wins, whatever
\* alias it bears: the sender is the earliest of from / who / account, the
\* amount the earliest of amount / actual_fee, the receiver the earliest to;
\* later fields of the same alias set change neither the extracted value nor
\* whether the extraction fails.
C25_FirstMatchWins ==
    EventsRunning =>
        /\ \A j \in DOMAIN emitted :
              LET ev == events[j]
                  S == {"from", "who", "account"}
                  A == {"amount", "actual_fee"}
                  T == {"to"}
                  ops == emitted[j]
              IN  /\ SelectedWellFormed(ev)
                  /\ ops[1].account =
                        IF HasRole(ev, S)
                        THEN Some(<<"ss58", <<10 * j + FirstOfRole(ev, S), j>>>>)
                        ELSE None
                  /\ ops[1].amount =
                        IF HasRole(ev, A)
                        THEN Some([sign |-> "-", digits |-> 300 * j + FirstOfRole(ev, A)])
                        ELSE None
                  /\ Len(ops) = 2 =>
                        /\ ops[2].account = Some(<<"ss58", <<10 * j + FirstOfRole(ev, T), j>>>>)
                        /\ ops[2].amount =
                              Some([sign |-> "", digits |-> 300 * j + FirstOfRole(ev, A)])
        /\ (pc = "done" /\ result.tag = "Err") => ~SelectedWellFormed(events[event_index + 1])
\* an event whose first sender field is a who and whose second, a from, is
\* not an account at all was processed with the who as the sender
C25_Witness ==
    /\ EventsRunning
    /\ Len(emitted) = 1
    /\ Len(events[1].fields) = 2
    /\ events[1].fields[1].name = "who" /\ events[1].fields[1].type_name = "AccountId32"
    /\ events[1].fields[2].name = "from" /\ events[1].fields[2].type_name = "bool"
    /\ emitted[1][1].account = Some(<<"ss58", <<11, 1>>>>)

\* an event on which extraction has to fail
MalformedEvent(ev) ==
    \/ ev.shape # "Named"
    \/ /\ HasRole(ev, {"amount", "actual_fee"})
       /\ ev.fields[FirstOfRole(ev, {"amount", "actual_fee"})].value.def # "U128"
    \/ \E R \in {{"from", "who", "account"}, {"to"}} :
          /\ HasRole(ev, R)
          /\ ev.fields[FirstOfRole(ev, R)].type_name # "AccountId32"

\* C26: an event whose fields are not named, or whose selected amount is not
\* a u128 primitive, or whose selected sender or receiver cannot be decomposed
\* into bytes, makes get_transaction return an error and no Transaction: the
\* operations of earlier events are not returned.
C26_MalformedEventIsError ==
    (EventsRunning /\ pc = "done" /\ \E e \in DOMAIN events : MalformedEvent(events[e]))
        => result.tag = "Err" /\ result.ops = <<>>
\* after a first event gave its two operations, a second event whose receiver
\* is a sequence of numbers without the inner composite ended the call
C26_Witness ==
    /\ EventsRunning /\ pc = "done"
    /\ Len(events) = 2 /\ Len(emitted) = 1 /\ Len(operations) = 2
    /\ HasRole(events[2], {"to"})
    /\ events[2].fields[FirstOfRole(events[2], {"to"})].type_name = "flat"
    /\ ~HasRole(events[2], {"from", "who", "account", "amount", "actual_fee"})
    /\ result.tag = "Err" /\ result.ops = <<>>

----------------------------------------------------------------------------
\* Reward amounts (utils.rs:378-418)

\* the constant of the latest fork active at the block
BaseRewardAt ==
    LET n == Unwrap(block.number)
    IN  IF n >= TESTNET_CHAIN_CONFIG.constantinople_block THEN CONSTANTINOPLE_BLOCK_REWARD
        ELSE IF n >= TESTNET_CHAIN_CONFIG.byzantium_block THEN BYZANTIUM_BLOCK_REWARD
        ELSE FRONTIER_BLOCK_REWARD

\* C22: the amount of the mining-reward operation depends on the block number
\* and on the presence of uncles only: the base reward R is the constant of
\* the latest fork whose activation block is <= the block number (the
\* frontier constant below every activation block), and the amount is R
\* without uncles and R + (R / multiplier) * R, integer division, with at
\* least one uncle.
C22_MiningRewardAmount ==
    (RewardReturned /\ result.tag = "Ok") =>
        LET R == BaseRewardAt
        IN  result.ops[1].amount =
                Some([sign |-> "",
                      digits |-> IF Len(block.uncles) = 0 THEN R
                                 ELSE R + (R \div UNCLE_REWARD_MULTIPLIER) * R])
\* a block exactly at the byzantium activation block, with an uncle, was
\* rewarded with the boosted byzantium reward
C22_Witness ==
    /\ RewardReturned /\ result.tag = "Ok"
    /\ block.number = Some(TESTNET_CHAIN_CONFIG.byzantium_block)
    /\ Len(block.uncles) = 1
    /\ Unwrap(result.ops[1].amount).digits
         = BYZANTIUM_BLOCK_REWARD
             + (BYZANTIUM_BLOCK_REWARD \div UNCLE_REWARD_MULTIPLIER) * BYZANTIUM_BLOCK_REWARD

\* C23: the amount of every uncle-reward operation is
\* (uncle_number + max_uncle_depth - block_number) * (reward / max_uncle_depth),
\* integer division, where reward is the amount of the mining-reward operation
\* of the same list; it is never negative: a block with an uncle whose
\* uncle_number + max_uncle_depth < block_number yields no list.
C23_UncleRewardAmount ==
    /\ (RewardReturned /\ result.tag = "Ok") =>
          LET reward == Unwrap(result.ops[1].amount).digits
              n == Unwrap(block.number)
          IN  \A i \in DOMAIN block.uncles :
                  LET k == Unwrap(block.uncles[i].number) + MAX_UNCLE_DEPTH - n
                      a == Unwrap(result.ops[i + 1].amount)
                  IN  /\ k >= 0
                      /\ a.sign = "" /\ a.digits >= 0
                      /\ a.digits = k * (reward \div MAX_UNCLE_DEPTH)
    /\ (/\ RewardReturned /\ IsSome(block.number)
        /\ \E i \in DOMAIN block.uncles :
              /\ IsSome(block.uncles[i].number)
              /\ Unwrap(block.uncles[i].number) + MAX_UNCLE_DEPTH < Unwrap(block.number))
          => result.tag # "Ok" /\ result.ops = <<>>
\* a block with two uncles at different depths was rewarded: the uncle one
\* block behind and the uncle MAX_UNCLE_DEPTH blocks behind (amount 0)
C23_Witness ==
    /\ RewardReturned /\ result.tag = "Ok"
    /\ Len(block.uncles) = 2
    /\ Unwrap(block.uncles[1].number) + 1 = Unwrap(block.number)
    /\ Unwrap(block.uncles[2].number) + MAX_UNCLE_DEPTH = Unwrap(block.number)
    /\ Unwrap(result.ops[2].amount).digits
         = 7 * (Unwrap(result.ops[1].amount).digits \div MAX_UNCLE_DEPTH)
    /\ Unwrap(result.ops[3].amount).digits = 0

----------------------------------------------------------------------------
\* The destruction ledger (utils.rs:203, 253-260, 309-353)

----------------------------------------------------------------------------
\* Fee conservation and underflow (utils.rs:85-171)

AmountNumber(a) == IF a.sign = "-" THEN 0 - a.digits ELSE a.digits
RECURSIVE SignedSum(_)
SignedSum(ops) ==
    IF ops = <<>> THEN 0
    ELSE AmountNumber(Unwrap(Head(ops).amount)) + SignedSum(Tail(ops))
Debits(ops) == SelectSeq(ops, LAMBDA o : Unwrap(o.amount).sign = "-")
Credits(ops) == SelectSeq(ops, LAMBDA o : Unwrap(o.amount).sign = "")

\* C28: whenever get_fee_operations returns Ok, the debits of the sender add
\* up to gas_used * effective_price, the credit of the miner is that total
\* minus gas_used * base_fee, and the signed sum of all amounts is
\* -(gas_used * base_fee), for two as for three operations.
C28_FeeConservation ==
    FeeReturnedOk =>
        LET gas_used == Unwrap(receipt.gas_used)
            total == ExpMul(gas_used, ExpEffectivePrice)
            burned == ExpMul(gas_used, Unwrap(block.base_fee_per_gas))
            debits == Debits(result.ops)
            credits == Credits(result.ops)
        IN  /\ total >= 0 /\ burned >= 0
            /\ Len(result.ops) \in {2, 3}
            /\ \A j \in DOMAIN debits : debits[j].account = Some(to_checksum(tx.from))
            /\ 0 - SignedSum(debits) = total
            /\ Len(credits) = 1
            /\ credits[1].account = Some(to_checksum(Unwrap(block.author)))
            /\ SignedSum(credits) = total - burned
            /\ SignedSum(result.ops) = 0 - burned
\* a call that burned a part and left a different part to the miner returned
\* three operations
C28_Witness ==
    /\ FeeReturnedOk
    /\ Len(result.ops) = 3
    /\ SignedSum(Credits(result.ops)) = 105000
    /\ SignedSum(result.ops) = 0 - 210000

\* C29: get_fee_operations never emits a negative or wrapped miner_earned: a
\* transaction that is not of the fee-market type, with gas_used > 0 and a
\* declared gas_price below the base fee, makes fee_amount - fee_burned
\* underflow, and the call aborts without an operation list.
C29_UnderflowAborts ==
    /\ FeeReturnedOk =>
          \A j \in DOMAIN result.ops :
              /\ Unwrap(result.ops[j].amount).digits >= 0
              /\ Unwrap(result.ops[j].amount).digits <= U256Max
    /\ (/\ pc = "done" /\ FeeInputsPresent
        /\ Unwrap(tx.transaction_type) # 2
        /\ Unwrap(receipt.gas_used) > 0
        /\ Unwrap(tx.gas_price) < Unwrap(block.base_fee_per_gas))
          => result.tag = "Panic" /\ result.ops = <<>>
\* a legacy transaction whose fee and burned part both fit the word, with a
\* gas price below the base fee, was processed
C29_Witness ==
    /\ pc = "done" /\ FeeInputsPresent
    /\ tx.transaction_type = Some(0)
    /\ receipt.gas_used = Some(21000)
    /\ tx.gas_price = Some(5) /\ block.base_fee_per_gas = Some(10)
    /\ result.tag = "Panic"

----------------------------------------------------------------------------
\* The trace of a transaction of block 0 (utils.rs:43-68)

\* C30: for a transaction of block number 0 the trace is neither fetched nor
\* converted and the Transaction holds exactly the two or three fee
\* operations; for every other block number it holds the fee operations
\* followed by the trace operations, whose indices start at the number of
\* fee operations.
C30_TraceOnlyAfterBlockZero ==
    /\ pc \in {"flatten", "for"} => block.number # Some(0)
    /\ (pc = "done" /\ result.tag = "Ok") =>
          LET fee == get_fee_operations(block, tx, receipt).ops
          IN  /\ Len(fee) \in {2, 3}
              /\ \A j \in DOMAIN fee : fee[j].type = "FEE"
              /\ IF block.number = Some(0)
                 THEN /\ result.ops = fee
                      /\ traces = <<>> /\ operations = <<>> /\ emitted = <<>>
                 ELSE /\ result.ops = fee \o operations
                      /\ op_len = Len(fee)
                      /\ \A j \in DOMAIN operations :
                            /\ operations[j].index = Len(fee) + j - 1
                            /\ operations[j].type # "FEE"
\* a transaction of block 0 whose trace holds a call with value came back
\* with its three fee operations only
C30_Witness ==
    /\ pc = "done" /\ result.tag = "Ok"
    /\ block.number = Some(0)
    /\ trace = TxOneCall
    /\ Len(result.ops) = 3

Init == InitFee \/ InitFlatten \/ InitTrace \/ InitEvent
Next == NextFee \/ NextTrace \/ NextEvent
Spec == Init /\ [][Next]_vars

\* the destruction ledger never holds a key: nothing inserts one
LedgerEmpty == destroyed_accs = <<>>


===========================================================================
